---- MODULE Spec2Model ----
(***************************************************************************)
(* State machine of the charged-puck simulation of src/Scene.svelte and    *)
(* its control panel src/+page.svelte: the charge store (particles), the   *)
(* edit ghost, the puck and its trail, the animation-frame clock and the   *)
(* sampled vector field; and of the CodeUpdater of the studio's gumball     *)
(* (src/packages/studio/src/components-3d/gumball/CodeUpdater.js), which   *)
(* rewrites the parametric code held by the studio's store.                *)
(*                                                                         *)
(* Numbers.  JavaScript numbers are modelled in fixed point: the integer n *)
(* stands for n / Scale, products and quotients round toward zero, and the *)
(* value NaN is kept apart.  Timestamps are integers in milliseconds.      *)
(* undefined and null are modelled by 0: the code only tests them for      *)
(* truthiness or compares them with ids, which are at least 1.             *)
(* Every event handler is one action; the Svelte effects it triggers are   *)
(* flushed in a microtask before any other task runs, so they are part of  *)
(* the same action.                                                        *)
(***************************************************************************)
EXTENDS Integers, Sequences, FiniteSets, TLC

\* ---------------------------------------------------------------- bounds
MaxSteps == 6     \* handler runs (input events, timer and frame callbacks)
                  \* in one run
MaxCalls == 3     \* calls of CodeUpdater methods in one run

\* ------------------------------------------------------- number modelling
Scale   == 10000      \* fixed-point units per 1.0
FrameMs == 1000       \* milliseconds between two possible frame timestamps
NaN       == -(20 * Scale * Scale)   \* a value no computation reaches
Undefined == 0        \* undefined (falsy, like the number 0)
Null      == 0        \* null (falsy; no source has id 0)

Abs(a) == IF a < 0 THEN -a ELSE a
Sgn(a) == IF a < 0 THEN -1 ELSE 1

\* a * b, rounded toward zero (the larger operand is split so that no
\* intermediate product leaves the integer range)
MulInt(a, b) ==
  LET hi == IF Abs(a) >= Abs(b) THEN Abs(a) ELSE Abs(b)
      lo == IF Abs(a) >= Abs(b) THEN Abs(b) ELSE Abs(a)
  IN  Sgn(a) * Sgn(b) * ((hi \div Scale) * lo + ((hi % Scale) * lo) \div Scale)

Mul(a, b) ==
  IF a = NaN \/ b = NaN THEN NaN
  ELSE IF a = 0 \/ b = 0 THEN 0
  ELSE MulInt(a, b)

\* a / b: 0/0 and NaN operands give NaN
Div(a, b) ==
  IF a = NaN \/ b = NaN THEN NaN
  ELSE IF b = 0 THEN NaN
  ELSE Sgn(a) * Sgn(b) * ((Abs(a) * Scale) \div Abs(b))

Add(a, b) == IF a = NaN \/ b = NaN THEN NaN ELSE a + b
Sub(a, b) == IF a = NaN \/ b = NaN THEN NaN ELSE a - b

\* a < b of JavaScript: false when an operand is NaN
Lt(a, b) == IF a = NaN \/ b = NaN THEN FALSE ELSE a < b

\* Math.max / Math.min: NaN when an operand is NaN
MathMax(a, b) == IF a = NaN \/ b = NaN THEN NaN ELSE IF a >= b THEN a ELSE b
MathMin(a, b) == IF a = NaN \/ b = NaN THEN NaN ELSE IF a <= b THEN a ELSE b

\* integer square root of n, rounded down, by Newton's iteration from a
\* value x that is not below the root: y is the next iterate
RECURSIVE ISqrtFrom(_, _, _)
ISqrtFrom(n, x, y) ==
  IF y >= x THEN x ELSE ISqrtFrom(n, y, (y + n \div y) \div 2)

ISqrt(n, x) == IF n = 0 THEN 0 ELSE ISqrtFrom(n, x, (x + n \div x) \div 2)

\* Math.hypot(dx, dy, dz); the sum of the squares stays in the integer
\* range for the distances that occur
MathHypot(dx, dy, dz) ==
  IF dx = NaN \/ dy = NaN \/ dz = NaN THEN NaN
  ELSE IF dx = 0 /\ dz = 0 THEN Abs(dy)
  ELSE IF dy = 0 /\ dz = 0 THEN Abs(dx)
  ELSE IF dx = 0 /\ dy = 0 THEN Abs(dz)
  ELSE ISqrt(dx * dx + dy * dy + dz * dz, Abs(dx) + Abs(dy) + Abs(dz))

\* Math.pow(a, n) for a whole exponent n >= 0
RECURSIVE MathPow(_, _)
MathPow(a, n) == IF n = 0 THEN Scale ELSE Mul(a, MathPow(a, n - 1))

\* ------------------------------------------------------ program constants
RADIUS == 2           \* softening radius
decay == 2            \* decay exponent (never reassigned)
FieldGain == 10       \* the factor 10 of each contribution in vf
SpeedFloor == 10      \* the 10 of Math.max(10, speed) in updatePuck
MinStep == 1          \* the floor 1e-8 of a substep, rounded up to the
                      \* smallest positive fixed-point value
SubIterations == 10   \* leapfrog calls per substep
ChargeUnit == 10      \* 0.001 in fixed point: the magnitude of a charge
ClickDelay == 250     \* ms before a single click starts an edit
vectorFieldUpdateThreshold == 5000   \* 0.5 in fixed point
ArrowScale == 15000   \* the 1.5 of scale = 1.5 / (fieldMag || 1)
ShaftPart == 4000     \* the 0.4 of the shaft position
OpacityGain == 5      \* the 5 of opacity = Math.min(1, 5 / ...)
OpacityFloor == 1000  \* the 0.1 added to minDist ** 2
Infinity == 20 * Scale * Scale   \* the value Infinity, kept apart like NaN

Num(n) == n * Scale   \* the whole number n in fixed point

Origin == <<0, 0, 0>>
PuckStart == [x |-> 0, y |-> 0, z |-> 0, vx |-> 0, vy |-> 0, vz |-> 0]
DefaultParticles ==
  << [id |-> 1, x |-> 0, y |-> Num(2), z |-> 0, charge |-> -ChargeUnit] >>

\* ------------------------------------------------------------ field model
\* A field that ignores the ghost (what C2 rules out).
EffectivePos_stored(s, p) == <<p.x, p.y, p.z>>

\* The effective coordinate of source p: the ghost position while p is
\* the source being edited (lines 84-92).
EffectivePos(s, p) ==
  IF s.editMode /\ p.id = s.editingParticleId
  THEN s.editingLivePosition
  ELSE <<p.x, p.y, p.z>>

\* 1 / r^n, one rounded division per power
RECURSIVE InvPow(_, _)
InvPow(r, n) == IF n = 0 THEN Num(1) ELSE Div(InvPow(r, n - 1), r)

\* A softened branch without the division of r by RADIUS (what C16 rules
\* out).
FactorSoft_unnormalised(r) ==
  IF r = 0 THEN Div(MathPow(0, 2), MathPow(0, decay + 1))
  ELSE InvPow(r, decay - 1)

\* The branch r < RADIUS of the per-source factor (lines 99-100).  A double
\* carries the quotient of the two powers to sixteen digits, so
\* pow(r / RADIUS, 2) / pow(r, decay + 1) is formed exactly,
\* 1 / (RADIUS^2 * r^(decay - 1)), and rounded once; at r = 0 it is 0 / 0.
FactorSoft(r) ==
  IF r = 0 THEN Div(MathPow(0, 2), MathPow(0, decay + 1))
  ELSE InvPow(r, decay - 1) \div (RADIUS * RADIUS)

\* The other branch, 1 / pow(r, decay + 1) (line 101).
FactorHard(r) == InvPow(r, decay + 1)

\* The per-source factor (lines 99-101).
Factor(r) ==
  IF r = NaN THEN NaN
  ELSE IF Lt(r, Num(RADIUS)) THEN FactorSoft(r)
  ELSE FactorHard(r)

\* dx, dy, dz of the loop body of vf (lines 94-96), e the effective
\* coordinate of the source
vfDelta(x, y, z, e) == << Sub(x, e[1]), Sub(y, e[2]), Sub(z, e[3]) >>

\* vec += 10 * p.charge * d * factor (lines 103-105), k = 10 * p.charge;
\* d * factor is formed first, which keeps the digits a double keeps
vfAdd(vec, k, d, factor) ==
  << Add(vec[1], Mul(k, Mul(d[1], factor))),
     Add(vec[2], Mul(k, Mul(d[2], factor))),
     Add(vec[3], Mul(k, Mul(d[3], factor))) >>

\* r and factor of the loop body of vf (lines 97-101), then the sum
vfContribution(vec, k, d) ==
  vfAdd(vec, k, d, Factor(MathHypot(d[1], d[2], d[3])))

\* A contribution that takes the magnitude of the charge only (what C15
\* rules out).
vfStep_unsigned(s, p, x, y, z, vec) ==
  vfContribution(vec, Mul(Num(FieldGain), Abs(p.charge)),
                 vfDelta(x, y, z, EffectivePos(s, p)))

\* One pass of the loop body of vf for source p, adding to vec.
vfStep(s, p, x, y, z, vec) ==
  vfContribution(vec, Mul(Num(FieldGain), p.charge),
                 vfDelta(x, y, z, EffectivePos(s, p)))

RECURSIVE vfLoop(_, _, _, _, _, _)
vfLoop(s, i, x, y, z, vec) ==
  IF i > Len(s.particles) THEN vec
  ELSE vfLoop(s, i + 1, x, y, z, vfStep(s, s.particles[i], x, y, z, vec))

\* A field in which an active ghost counts as a source of its own, next to
\* the stored ones (what C14 rules out).
vf_ghostAsSource(s, x, y, z) ==
  IF s.editMode
  THEN vfContribution(vfLoop(s, 1, x, y, z, Origin),
                      Mul(Num(FieldGain), -ChargeUnit),
                      vfDelta(x, y, z, s.editingLivePosition))
  ELSE vfLoop(s, 1, x, y, z, Origin)

\* vf(x, y, z) read in scene s (lines 79-109).
vf(s, x, y, z) == vfLoop(s, 1, x, y, z, Origin)

\* ------------------------------------------------------------- integrator
\* leapfrog(f, v, x, h) of $lib/mathutils3d.js: one symplectic step of size
\* h with one evaluation of the force f; returns [x, y, z, vx, vy, vz].
\* The library file is not part of the sources at hand: the step is the
\* symplectic kick-drift form, one force evaluation per call.
\* The kick v + a * h and the drift x + v * h; Drift returns the position
\* followed by the velocity it moved with.
Kick(vel, a, h) ==
  << Add(vel[1], Mul(a[1], h)), Add(vel[2], Mul(a[2], h)),
     Add(vel[3], Mul(a[3], h)) >>

Drift(pos, v1, h) ==
  << Add(pos[1], Mul(v1[1], h)), Add(pos[2], Mul(v1[2], h)),
     Add(pos[3], Mul(v1[3], h)), v1[1], v1[2], v1[3] >>

\* The force function handed to leapfrog (line 139).
ScaleVec(g, m) == << Mul(g[1], m), Mul(g[2], m), Mul(g[3], m) >>

Force(s, x, y, z) == ScaleVec(vf(s, x, y, z), MathPow(Num(10), decay))

\* leapfrog(f, vel, pos, h) with f the force function read in scene s
leapfrog(s, vel, pos, h) ==
  Drift(pos, Kick(vel, Force(s, pos[1], pos[2], pos[3]), h), h)

\* One pass of the body of the for loop (lines 138-143); v is
\* [x, y, z, vx, vy, vz].
LeapfrogPass(s, v, h) ==
  leapfrog(s, <<v[4], v[5], v[6]>>, <<v[1], v[2], v[3]>>, h)

\* Up to n passes of the for loop (lines 137-144) from loop state
\* u = << v, i >>, i the loop counter.  The passes are grouped in halves,
\* which keeps the evaluation shallow and gives the same value.
RECURSIVE ForPasses(_, _, _, _)
ForPasses(s, u, h, n) ==
  IF ~(u[2] < SubIterations) THEN u
  ELSE IF n = 1 THEN << LeapfrogPass(s, u[1], h), u[2] + 1 >>
  ELSE ForPasses(s, ForPasses(s, u, h, n \div 2), h, n - (n \div 2))

\* The inner for loop of updatePuck, run to its end.
SubSteps(s, v, h) == ForPasses(s, << v, 0 >>, h, SubIterations)[1]

\* A substep that is floored but not clamped to what is left of dt (what
\* C24 rules out).
StepSize_unclamped(v, dt, runningTime) ==
  MathMax(MinStep,
          Div(dt, MathMax(Num(SpeedFloor), MathHypot(v[4], v[5], v[6]))))

\* The substep chosen at the head of the while loop (lines 133-134).
StepSize(v, dt, runningTime) ==
  MathMin(MathMax(MinStep,
                  Div(dt, MathMax(Num(SpeedFloor),
                                  MathHypot(v[4], v[5], v[6])))),
          Sub(dt, runningTime))

\* The state of the while loop (lines 132-145) at its head:
\* << v, runningTime, runningTime < dt >>.
WhileState(v, runningTime, dt) == << v, runningTime, Lt(runningTime, dt) >>

\* The body of the while loop once h is known (lines 135-144), and the
\* test at the head of the next pass.
WhileBody(s, v, runningTime, h, dt) ==
  WhileState(SubSteps(s, v, h), Add(runningTime, h), dt)

\* One pass of the while loop from loop state w.
WhilePass(s, w, dt) ==
  IF ~w[3] THEN w
  ELSE WhileBody(s, w[1], w[2], StepSize(w[1], dt, w[2]), dt)

\* Up to n passes of the while loop, grouped in halves.
RECURSIVE WhilePasses(_, _, _, _)
WhilePasses(s, w, dt, n) ==
  IF ~w[3] THEN w
  ELSE IF n = 1 THEN WhilePass(s, w, dt)
  ELSE WhilePasses(s, WhilePasses(s, w, dt, n \div 2), dt, n - (n \div 2))

\* The state the while loop of updatePuck ends in: v, runningTime and the
\* failed test.
RECURSIVE PuckLoopEnd(_, _, _, _)
PuckLoopEnd(s, w, dt, n) ==
  IF ~w[3] THEN w
  ELSE PuckLoopEnd(s, WhilePasses(s, w, dt, n), dt, 2 * n)

\* The while loop of updatePuck, run to its end: 1, 2, 4, ... passes until
\* runningTime < dt fails.
RECURSIVE PuckLoop(_, _, _, _)
PuckLoop(s, w, dt, n) ==
  IF ~w[3] THEN w[1]
  ELSE PuckLoop(s, WhilePasses(s, w, dt, n), dt, 2 * n)

\* A write-back that keeps the latest position only instead of pushing it
\* (what C21 rules out).
WritePuck_keepsLatest(v, pts) ==
  [ puck   |-> [x |-> v[1], y |-> v[2], z |-> v[3],
                vx |-> v[4], vy |-> v[5], vz |-> v[6]],
    points |-> << <<v[1], v[2], v[3]>> >> ]

\* The write-back and the trail push that end updatePuck (lines 147-154).
WritePuck(v, pts) ==
  [ puck   |-> [x |-> v[1], y |-> v[2], z |-> v[3],
                vx |-> v[4], vy |-> v[5], vz |-> v[6]],
    points |-> Append(pts, <<v[1], v[2], v[3]>>) ]

\* A loop that takes its first substep before it tests runningTime < dt,
\* with the substep floored but not clamped (what C11 rules out).
updatePuck_stepFirst(s, pk, pts, dt) ==
  WritePuck(PuckLoop(s,
                     WhileBody(s, <<pk.x, pk.y, pk.z, pk.vx, pk.vy, pk.vz>>,
                               0, MathMax(MinStep, Div(dt, Num(SpeedFloor))),
                               dt),
                     dt, 1),
            pts)

\* updatePuck(dt) (lines 129-155) read in scene s on puck pk and trail pts
updatePuck(s, pk, pts, dt) ==
  WritePuck(PuckLoop(s,
                     WhileState(<<pk.x, pk.y, pk.z, pk.vx, pk.vy, pk.vz>>,
                                0, dt),
                     dt, 1),
            pts)

\* ------------------------------------------------------------------ state
VARIABLES
  puck,                     \* the DynParticle puck (lines 50-58)
  particles,                \* the charge sources (lines 64-66)
  points,                   \* the trail (line 116)
  isPlaying,                \* instructions.play, read as go (line 124)
  last,                     \* timestamp base of animate (line 125)
  req,                      \* handle of the latest frame request (line 126)
  clock,                    \* simulated time shown (line 127)
  rafQueue,                 \* frame callbacks registered with the browser
  now,                      \* the browser's clock, in ms, at the latest
                            \* frame or press of play / stop
  addMode,                  \* +page.svelte: a source is being placed
  addCharge,                \* +page.svelte: charge of the source being placed
  editMode,                 \* an edit ghost is active (line 261)
  editingParticleId,        \* the ghost's target (line 263)
  lastEditPosition,         \* line 320
  editingLivePosition,      \* the ghost position (line 326)
  editPositionTick,         \* line 329
  lastEditPositionForField, \* line 379
  clickTimeout,             \* id awaited by the pending single-click timer
  showVf,                   \* +page.svelte: the field is shown (line 10)
  vectorField,              \* value of the $derived vectorField (line 384)
  fieldDirty,               \* a dependency of vectorField was written since
                            \* its latest evaluation
  recomputed,               \* history: the handler that ran last evaluated
                            \* vectorField
  fieldGhost,               \* history: the ghost position the latest
                            \* evaluation of vectorField read (<< >>: none)
  lastOp,                   \* history: the handler that ran last
  steps,                    \* history: handlers run so far
  sinceResume,              \* history: frame callbacks run since the last play
  lastIssued,               \* history: id the latest add returned (0: none)
  maxIssued,                \* history: largest id the adds before the latest
                            \* one returned, since the last reset
  code,                     \* CodeUpdater: store.code.current
  passed,                   \* history: the codes new Function() accepted in
                            \* the latest CodeUpdater call
  written,                  \* history: the codes the latest CodeUpdater call
                            \* handed to the store
  codeOp,                   \* history: the CodeUpdater method called last
  calls                     \* history: CodeUpdater calls so far

sceneVars == << puck, particles, points, isPlaying, last, req, clock,
                rafQueue, now, addMode, addCharge, editMode,
                editingParticleId, lastEditPosition, editingLivePosition,
                editPositionTick, lastEditPositionForField, clickTimeout,
                showVf, vectorField, fieldDirty, recomputed, fieldGhost,
                lastOp, steps, sinceResume, lastIssued, maxIssued >>

codeVars == << code, passed, written, codeOp, calls >>

vars == << sceneVars, codeVars >>

clockVars == << isPlaying, last, req, clock, rafQueue, now, sinceResume >>
puckVars  == << puck, points >>
addVars   == << addMode, addCharge >>
editVars  == << editMode, editingParticleId, lastEditPosition,
                editingLivePosition >>
fieldVars == << editPositionTick, lastEditPositionForField >>
issueVars == << lastIssued, maxIssued >>

\* The part of the component state the edit and store functions read and
\* write, as one record.
Scene ==
  [ particles           |-> particles,
    editMode            |-> editMode,
    editingParticleId   |-> editingParticleId,
    lastEditPosition    |-> lastEditPosition,
    editingLivePosition |-> editingLivePosition ]

SetScene(s) ==
  /\ particles' = s.particles
  /\ editMode' = s.editMode
  /\ editingParticleId' = s.editingParticleId
  /\ lastEditPosition' = s.lastEditPosition
  /\ editingLivePosition' = s.editingLivePosition

Ids(parts) == { parts[i].id : i \in 1..Len(parts) }

\* Where a new or an edited source can be put: the origin (where the add
\* gizmo starts) and farther up the y axis; for an edit, two positions
\* within the update threshold of the origin and 0.8 apart, and one beyond
\* the default source.
AddPositions  == { Origin, <<0, Num(4), 0>> }
EditPositions == { <<0, 4000, 0>>, <<0, -4000, 0>>, <<0, Num(2) + 8000, 0>> }


\* ------------------------------------------------------------ charge store
\* Id rules other than "last id + 1" (what C5, C6 and C7 rule out).
particle_num_length(parts) == Len(parts) + 1
particle_num_same(parts) == IF Len(parts) > 0 THEN parts[Len(parts)].id ELSE 1
particle_num_first(parts) == IF Len(parts) > 0 THEN parts[1].id + 1 ELSE 1

\* particle_num (line 223)
particle_num(parts) ==
  IF Len(parts) > 0 THEN parts[Len(parts)].id + 1 ELSE 1

\* addParticle([x, y, z]) with the charge of the panel (lines 225-233)
addParticle(s, pos, charge) ==
  [s EXCEPT !.particles =
     Append(@, [id |-> particle_num(s.particles),
                x |-> pos[1], y |-> pos[2], z |-> pos[3],
                charge |-> charge])]

\* confirmAdd (lines 239-248): hasRef says whether chargeRef is bound, pos
\* is the world position of the placed mesh.
confirmAdd(s, hasRef, pos, charge) ==
  IF hasRef THEN addParticle(s, pos, charge) ELSE s

\* startEditing(particleId) (lines 265-274)
startEditing(s, particleId) ==
  LET found == { i \in 1..Len(s.particles) : s.particles[i].id = particleId }
      s1 == [s EXCEPT !.editingParticleId = particleId, !.editMode = TRUE]
  IN  IF found # {}
      THEN LET p == s.particles[CHOOSE i \in found : \A j \in found : i <= j]
           IN  [s1 EXCEPT !.lastEditPosition = <<p.x, p.y, p.z>>]
      ELSE s1

\* stopEditing (lines 277-280)
stopEditing(s) == [s EXCEPT !.editingParticleId = Null, !.editMode = FALSE]

\* A commit that moves every source (what C3 rules out).
confirmEdit_all(s) ==
  IF s.editingParticleId # Null
  THEN [s EXCEPT !.particles =
          [ i \in 1..Len(s.particles) |->
              [s.particles[i] EXCEPT !.x = s.editingLivePosition[1],
                                     !.y = s.editingLivePosition[2],
                                     !.z = s.editingLivePosition[3]] ]]
  ELSE s

\* confirmEdit (lines 283-293)
confirmEdit(s) ==
  IF s.editingParticleId # Null
  THEN [s EXCEPT !.particles =
          [ i \in 1..Len(s.particles) |->
              IF s.particles[i].id = s.editingParticleId
              THEN [s.particles[i] EXCEPT !.x = s.editingLivePosition[1],
                                          !.y = s.editingLivePosition[2],
                                          !.z = s.editingLivePosition[3]]
              ELSE s.particles[i] ]]
  ELSE s

\* A timer callback without the editMode test (what C4 rules out).
singleClickCallback_unguarded(s, particleId) == startEditing(s, particleId)

\* The callback handleSingleClick hands to setTimeout (lines 301-305)
singleClickCallback(s, particleId) ==
  IF ~s.editMode THEN startEditing(s, particleId) ELSE s

\* handleDoubleClickConfirmEdit without its clearTimeout (lines 310-311)
doubleClickConfirmEdit(s) == stopEditing(confirmEdit(s))

\* particles.filter(part => part.id !== particleId) (line 316)
doubleClickDelete(s, particleId) ==
  [s EXCEPT !.particles =
     SelectSeq(@, LAMBDA part : part.id # particleId)]

\* updateLiveEditPosition (lines 332-342): world is the world position of
\* the dragged mesh; f is <<lastEditPositionForField, editPositionTick>>.
Distance(a, b) == MathHypot(a[1] - b[1], a[2] - b[2], a[3] - b[3])

\* An update that counts every move of the ghost (what C26 rules out).
updateLiveEditPosition_everyMove(live, f, hasRef, world) ==
  IF hasRef
  THEN [live |-> world, forField |-> world, tick |-> f[2] + 1]
  ELSE [live |-> live, forField |-> f[1], tick |-> f[2]]

updateLiveEditPosition(live, f, hasRef, world) ==
  IF hasRef
  THEN IF Distance(world, f[1]) > vectorFieldUpdateThreshold
       THEN [live |-> world, forField |-> world, tick |-> f[2] + 1]
       ELSE [live |-> world, forField |-> f[1], tick |-> f[2]]
  ELSE [live |-> live, forField |-> f[1], tick |-> f[2]]

\* ---------------------------------------------------------- field sampler
\* The points of fieldPoints (lines 361-371) that are sampled here: lattice
\* points next to the axis the sources are placed on.  The lattice has odd
\* x and z and even y.
fieldPoints ==
  << <<Num(1), Num(2), Num(1)>>,
     <<-Num(1), 0, Num(1)>>,
     <<Num(1), Num(4), -Num(1)>> >>

\* a || 1 of JavaScript: 0 and NaN are falsy
OrOne(a) == IF a = 0 \/ a = NaN THEN Num(1) ELSE a

\* A scale without the fallback for fieldMag = 0, 1.5 / fieldMag (what C18
\* rules out).
ArrowDir_noFallback(f, fieldMag) == ScaleVec(f, Div(ArrowScale, fieldMag))

\* A scale 1.5 / max(fieldMag, 1), which leaves fields weaker than 1 in
\* proportion (what C25, amended, rules out).
ArrowDir_clamped(f, fieldMag) ==
  ScaleVec(f, Div(ArrowScale, MathMax(fieldMag, Num(1))))

\* dir: the field times scale = 1.5 / (fieldMag || 1) (lines 389-391)
ArrowDir(f, fieldMag) == ScaleVec(f, Div(ArrowScale, OrOne(fieldMag)))

\* origin + dirNorm * (len * part), dirNorm = dir / (len || 1), the
\* normalize() of three.js (lines 392-396)
AlongArrow(origin, dir, len, part) ==
  << Add(origin[1], Mul(Div(dir[1], OrOne(len)), Mul(len, part))),
     Add(origin[2], Mul(Div(dir[2], OrOne(len)), Mul(len, part))),
     Add(origin[3], Mul(Div(dir[3], OrOne(len)), Mul(len, part))) >>

\* The loop over particles that finds minDist (lines 402-413)
Closer(dist, minDist) == IF dist < minDist THEN dist ELSE minDist

RECURSIVE MinDistLoop(_, _, _, _)
MinDistLoop(s, i, q, minDist) ==
  IF i > Len(s.particles) THEN minDist
  ELSE MinDistLoop(s, i + 1, q,
         Closer(Distance(q, EffectivePos(s, s.particles[i])), minDist))

\* opacity = Math.min(1, 5 / (minDist ** 2 + 0.1)) (line 415)
Opacity(minDist) ==
  IF minDist = Infinity THEN 0
  ELSE MathMin(Num(1), Div(Num(OpacityGain),
                           Add(Mul(minDist, minDist), OpacityFloor)))

\* The record returned for one lattice point (lines 417-423), dir and its
\* length known.  The quaternion, the rotation that takes (0, 1, 0) to
\* dirNorm, is determined by dir and is not kept.
FieldSample(origin, dir, len, minDist) ==
  [ shaftPos |-> AlongArrow(origin, dir, len, ShaftPart),
    headPos  |-> AlongArrow(origin, dir, len, Num(1)),
    length   |-> len,
    opacity  |-> Opacity(minDist) ]

SampleOfDir(s, q, dir) ==
  FieldSample(q, dir, MathHypot(dir[1], dir[2], dir[3]),
              MinDistLoop(s, 1, q, Infinity))

SampleOfField(s, q, f) ==
  SampleOfDir(s, q, ArrowDir(f, MathHypot(f[1], f[2], f[3])))

\* The callback of fieldPoints.map (lines 387-424) at lattice point q
SampleAt(s, q) == SampleOfField(s, q, vf(s, q[1], q[2], q[3]))

\* A recomputation that also writes the ghost position into its target
\* (what C17 rules out).
vectorFieldDerived_commits(st) ==
  [st EXCEPT
     !.vectorField =
        [ i \in 1..Len(fieldPoints) |-> SampleAt(st.scene, fieldPoints[i]) ],
     !.scene.particles =
        [ i \in 1..Len(st.scene.particles) |->
            IF st.scene.editMode
               /\ st.scene.particles[i].id = st.scene.editingParticleId
            THEN [st.scene.particles[i] EXCEPT
                    !.x = st.scene.editingLivePosition[1],
                    !.y = st.scene.editingLivePosition[2],
                    !.z = st.scene.editingLivePosition[3]]
            ELSE st.scene.particles[i] ] ]

\* One evaluation of the $derived vectorField (lines 384-425) on the
\* component state st = [scene, puck, points, vectorField]: the value is
\* replaced, everything else is only read.
vectorFieldDerived(st) ==
  [st EXCEPT
     !.vectorField =
        [ i \in 1..Len(fieldPoints) |-> SampleAt(st.scene, fieldPoints[i]) ] ]

\* ------------------------------------------------------------------ clock
\* requestAnimationFrame: a handle no registered callback has
FreshHandle(queue) ==
  CHOOSE n \in 1..(Cardinality(queue) + 1) :
    n \notin queue /\ \A m \in 1..(n - 1) : m \in queue

\* A stop that keeps the timestamp base (what C9 rules out), and a stop
\* that leaves the request with the browser (what C10 rules out).
playStopEffect_keepsBase(go, c) ==
  IF go
  THEN [c EXCEPT !.req = FreshHandle(c.rafQueue),
                 !.rafQueue = @ \cup {FreshHandle(c.rafQueue)}]
  ELSE IF c.req # Undefined
  THEN [c EXCEPT !.rafQueue = @ \ {c.req}, !.req = Undefined]
  ELSE c

playStopEffect_keepsRequest(go, c) ==
  IF go
  THEN [c EXCEPT !.req = FreshHandle(c.rafQueue),
                 !.rafQueue = @ \cup {FreshHandle(c.rafQueue)}]
  ELSE IF c.req # Undefined
  THEN [c EXCEPT !.req = Undefined, !.last = Undefined]
  ELSE c

\* The $effect on go (lines 172-183); c is [req, last, rafQueue].
playStopEffect(go, c) ==
  IF go
  THEN [c EXCEPT !.req = FreshHandle(c.rafQueue),
                 !.rafQueue = @ \cup {FreshHandle(c.rafQueue)}]
  ELSE IF c.req # Undefined
  THEN [c EXCEPT !.rafQueue = @ \ {c.req}, !.req = Undefined,
                 !.last = Undefined]
  ELSE c

\* The clock part of the $effect on resetVal (lines 187-189)
resetClockEffect(c) ==
  [c EXCEPT !.rafQueue = IF c.req # Undefined THEN @ \ {c.req} ELSE @,
            !.last = Undefined]

\* The scene part of the $effect on resetVal (lines 192, 207)
resetSceneEffect(s) == [stopEditing(s) EXCEPT !.particles = DefaultParticles]

\* A reset that keeps the trail (what C1 rules out).
resetPuckEffect_keepsTrail(pk, pts) == [puck |-> PuckStart, points |-> pts]

\* The puck and trail part of the $effect on resetVal (lines 196-205)
resetPuckEffect(pk, pts) == [puck |-> PuckStart, points |-> << >>]

ClockState == [req |-> req, last |-> last, rafQueue |-> rafQueue]

\* The frame state a callback with handle h starts from: the browser has
\* taken h off its list.
FrameState(h) ==
  [ req |-> req, last |-> last, rafQueue |-> rafQueue \ {h},
    clock |-> clock, puck |-> puck, points |-> points ]

SetFrame(f) ==
  /\ req' = f.req
  /\ last' = f.last
  /\ rafQueue' = f.rafQueue
  /\ clock' = f.clock
  /\ puck' = f.puck
  /\ points' = f.points

SetClock(c) ==
  /\ req' = c.req
  /\ last' = c.last
  /\ rafQueue' = c.rafQueue


\* animate(t) (lines 157-168), run on the frame state
\* f = [req, last, rafQueue, clock, puck, points] in scene s.
FrameDt(f, t) ==
  ((t - (IF f.last = Undefined THEN t ELSE f.last)) * Scale) \div 1000

\* lines 163-167 once dt is known: u is what updatePuck(dt) wrote, h the
\* handle of the new request
animateWrite(f, t, dt, u, h) ==
  [f EXCEPT !.last = t, !.puck = u.puck, !.points = u.points,
            !.clock = @ + dt, !.req = h, !.rafQueue = @ \cup {h}]

animate(go, s, f, t) ==
  IF ~go
  THEN [f EXCEPT !.last = Undefined]
  ELSE animateWrite(f, t, FrameDt(f, t),
                    updatePuck(s, f.puck, f.points, FrameDt(f, t)),
                    FreshHandle(f.rafQueue))

\* The component state the derived vectorField is evaluated on, before and
\* after the handler at hand.
Component ==
  [ scene |-> Scene, puck |-> puck, points |-> points,
    vectorField |-> vectorField ]

ComponentAfter ==
  [ scene |-> Scene', puck |-> puck', points |-> points',
    vectorField |-> vectorField ]

\* The ghost position an evaluation of the field in scene s reads: the
\* position is read for the source that is being edited only.
GhostRead(s) ==
  IF s.editMode /\ s.editingParticleId \in Ids(s.particles)
  THEN s.editingLivePosition
  ELSE << >>

\* A flush that evaluates vectorField on the state before the handler's
\* writes (what C20 rules out).
Publish_beforeHandler(assigned) ==
  LET changed == \/ assigned
                 \/ editMode' # editMode
                 \/ editingParticleId' # editingParticleId
                 \/ editPositionTick' # editPositionTick
      run == showVf' /\ (fieldDirty \/ changed)
  IN  /\ recomputed' = run
      /\ fieldDirty' = (~showVf' /\ (fieldDirty \/ changed))
      /\ vectorField' = IF run THEN vectorFieldDerived(Component).vectorField
                                ELSE vectorField
      /\ fieldGhost' = IF run THEN GhostRead(Scene) ELSE fieldGhost

\* The flush that ends a handler.  vectorField depends on the signals it
\* read: particles (assigned says the handler assigned it, whatever the
\* value), editMode, editingParticleId and editPositionTick; the Vector3
\* editingLivePosition is no signal.  The each block of the template
\* (line 529) reads vectorField while showVf holds, and a derived nobody
\* reads is evaluated when it is read again, if a dependency was written.
Publish(assigned) ==
  LET changed == \/ assigned
                 \/ editMode' # editMode
                 \/ editingParticleId' # editingParticleId
                 \/ editPositionTick' # editPositionTick
      run == showVf' /\ (fieldDirty \/ changed)
  IN  /\ recomputed' = run
      /\ fieldDirty' = (~showVf' /\ (fieldDirty \/ changed))
      /\ vectorField' = IF run THEN vectorFieldDerived(ComponentAfter).vectorField
                                ELSE vectorField
      /\ fieldGhost' = IF run THEN GhostRead(Scene') ELSE fieldGhost

\* ------------------------------------------------------------ code updater
\* The parametric code as the patterns of CodeUpdater see it:
\*   dp      the text matches  const defaultParams = { ... }
\*   body    the entries between those braces in text order, each
\*           [key, val, comma]: key: val, followed by a comma or not
\*   main    the text matches  const main = (...) => {
\*   assign  the transform calls chained onto the assignment of the shape
\*   ret     the transform calls chained onto the shape in  return shape...;
\* A transform call is [type, args]; args is "params" for the bracketed
\* defaultParams arguments the updater writes, or the tuple of the literal
\* values of values.join(', ').
ShapeName == "shape"    \* the variable the sample codes assign and return
TransformKeys ==
  << "x_translate", "y_translate", "z_translate", "angle", "axis_x",
     "axis_y", "axis_z" >>
CenterKeys == { "center_x", "center_y", "center_z" }

Entry(key, val, comma) == [key |-> key, val |-> val, comma |-> comma]
TranslateP == [type |-> "translate", args |-> "params"]
RotateP == [type |-> "rotate", args |-> "params"]

\* The entries addTransformParametersToCode writes: key: 0, and axis_z: 1,
NewEntry(key) == Entry(key, IF key = "axis_z" THEN Num(1) ELSE 0, TRUE)

\* Editor contents the updater is tried on: no defaultParams; a block whose
\* last entry has no comma after it; one whose last entry has; one with the
\* transform keys, a center and the transforms in place; a main that is not
\* an arrow function.
PlainCode ==
  [ dp |-> FALSE, body |-> << >>, main |-> TRUE, assign |-> << >>,
    ret |-> << >> ]

SampleCodes ==
  { PlainCode,
    [PlainCode EXCEPT !.dp = TRUE,
                      !.body = << Entry("height", Num(100), FALSE) >>],
    [PlainCode EXCEPT !.dp = TRUE,
                      !.body = << Entry("height", Num(100), TRUE) >>],
    [PlainCode EXCEPT !.dp = TRUE,
                      !.body = << Entry("x_translate", 0, TRUE),
                                  Entry("angle", 0, TRUE),
                                  Entry("center_x", Num(5), FALSE) >>,
                      !.ret = << TranslateP, RotateP >>],
    [PlainCode EXCEPT !.main = FALSE] }

\* new Function(c) returns: the text parses.  The updater's edits leave the
\* rest of the text well formed; the entries of the defaultParams block
\* need a comma between them.
Parses(c) == c.dp => \A i \in 1..(Len(c.body) - 1) : c.body[i].comma

\* v.toFixed(digits), read back by parseFloat: v rounded to that many
\* decimals
ToFixed(v, digits) ==
  LET unit == IF digits = 2 THEN Scale \div 100 ELSE 1
  IN  Sgn(v) * (((Abs(v) + unit \div 2) \div unit) * unit)

HasKey(body, key) == \E i \in 1..Len(body) : body[i].key = key
FirstOf(body, key) ==
  CHOOSE i \in 1..Len(body) :
    body[i].key = key /\ \A j \in 1..(i - 1) : body[j].key # key

\* parseFloat of the match of key:\s*([0-9.-]+), or 0 (lines 25-31)
ValueOf(body, key) ==
  IF HasKey(body, key) THEN body[FirstOf(body, key)].val ELSE 0

\* content.replace(/key:\s*[0-9.-]+/, `key: ${text}`) when the key is
\* there; when it is not, the replace of /\s*}\s*$/ finds no brace in the
\* content and leaves it (lines 41-69, 107-115)
ReplaceParam(body, key, val) ==
  IF HasKey(body, key)
  THEN [body EXCEPT ![FirstOf(body, key)].val = val]
  ELSE body

\* the replaces of center_x, center_y, center_z (lines 123-125, 250-252)
RemoveCenters(body) == SelectSeq(body, LAMBDA e : e.key \notin CenterKeys)

\* The store of the studio, as far as CodeUpdater uses it: st is
\* [current, passed, written].  store.code.update(newCode, true) and
\* store.updateCode(newCode) make newCode the current code.
StoreUpdate(st, newCode) ==
  [st EXCEPT !.current = newCode, !.written = @ \cup {newCode}]

\* new Function(newCode) has returned (lines 162, 316, 626)
NewFunction(st, newCode) ==
  [st EXCEPT !.passed = IF Parses(newCode) THEN @ \cup {newCode} ELSE @]

\* validateCodeModification (lines 623-632) followed by the guarded
\* store.code.update (lines 471-472 and alike)
ValidatedUpdate(st, newCode) ==
  IF Parses(newCode) THEN StoreUpdate(NewFunction(st, newCode), newCode)
  ELSE st

\* triggerRebuild (lines 344-383): both store calls, no check
triggerRebuild(st, newCode) == StoreUpdate(StoreUpdate(st, newCode), newCode)

\* updateTranslationParams (lines 12-82); d is totalDisplacement
ShiftParam(body, key, dk) ==
  ReplaceParam(body, key, ToFixed(ValueOf(body, key) + dk, 2))

updateTranslationParams(st, d) ==
  IF ~st.current.dp THEN st
  ELSE triggerRebuild(st,
         [st.current EXCEPT !.body =
            ShiftParam(ShiftParam(ShiftParam(@, "x_translate", d[1]),
                                  "y_translate", d[2]),
                       "z_translate", d[3])])

HasCall(chain, type) == \E i \in 1..Len(chain) : chain[i].type = type
EndsWith(chain, type) == Len(chain) > 0 /\ chain[Len(chain)].type = type

\* replace(/(\.translate\([^)]+\));/, `$1.rotate(...);`): the first
\* translate call that ends its statement gets the rotate call after it
\* (lines 143-146, 307-310)
AddRotateAfterTranslate(c) ==
  IF EndsWith(c.assign, "translate")
  THEN [c EXCEPT !.assign = Append(@, RotateP)]
  ELSE IF EndsWith(c.ret, "translate")
  THEN [c EXCEPT !.ret = Append(@, RotateP)]
  ELSE c

\* replace(/(return\s+)([^;]+);/, `$1$2.translate(...).rotate(...);`)
\* (lines 149-152, 295-298)
AddBothToReturn(c) == [c EXCEPT !.ret = @ \o << TranslateP, RotateP >>]

\* updateExistingRotationCenter (lines 180-193): every rotate call gets the
\* defaultParams arguments
ParamsRotate(chain) ==
  [ i \in 1..Len(chain) |->
      IF chain[i].type = "rotate" THEN RotateP ELSE chain[i] ]

updateExistingRotationCenter(c) ==
  [c EXCEPT !.assign = ParamsRotate(@), !.ret = ParamsRotate(@)]

\* updateRotationParams (lines 87-175)
RotationBody(body, angle, axis) ==
  RemoveCenters(
    ReplaceParam(
      ReplaceParam(
        ReplaceParam(ReplaceParam(body, "angle", ToFixed(angle, 4)),
                     "axis_x", ToFixed(axis[1], 4)),
        "axis_y", ToFixed(axis[2], 4)),
      "axis_z", ToFixed(axis[3], 4)))

RotationMain(c) ==
  IF ~HasCall(c.assign \o c.ret, "rotate")
  THEN IF HasCall(c.assign \o c.ret, "translate")
       THEN AddRotateAfterTranslate(c)
       ELSE AddBothToReturn(c)
  ELSE updateExistingRotationCenter(c)

updateRotationParams(st, angle, axis) ==
  IF ~st.current.dp THEN st
  ELSE ValidatedUpdate(st,
         RotationMain([st.current EXCEPT
                         !.body = RotationBody(@, angle, axis)]))

\* addTransformToMainFunction (lines 285-339)
HasBracketTranslate(chain) ==
  \E i \in 1..Len(chain) : chain[i] = TranslateP

LastRotate(chain) ==
  CHOOSE i \in 1..Len(chain) :
    chain[i].type = "rotate"
      /\ \A j \in (i + 1)..Len(chain) : chain[j].type # "rotate"

\* replace(/(return\s+)([^;]+)\.rotate\(/, `$1$2.translate(...).rotate(`)
\* (lines 301-304)
AddTranslateBeforeRotate(c) ==
  IF HasCall(c.ret, "rotate")
  THEN [c EXCEPT !.ret = SubSeq(@, 1, LastRotate(@) - 1)
                           \o << TranslateP >>
                           \o SubSeq(@, LastRotate(@), Len(@))]
  ELSE c

MainWithTransform(c) ==
  IF ~HasBracketTranslate(c.assign \o c.ret)
  THEN IF ~HasCall(c.assign \o c.ret, "rotate")
       THEN AddBothToReturn(c)
       ELSE AddTranslateBeforeRotate(c)
  ELSE IF ~HasCall(c.assign \o c.ret, "rotate")
  THEN AddRotateAfterTranslate(c)
  ELSE c

addTransformToMainFunction(st) ==
  IF MainWithTransform(st.current) # st.current
  THEN ValidatedUpdate(st, MainWithTransform(st.current))
  ELSE st

\* addTransformParametersToCode (lines 198-280)
MissingEntries(body) ==
  [ i \in 1..Len(SelectSeq(TransformKeys, LAMBDA k : ~HasKey(body, k))) |->
      NewEntry(SelectSeq(TransformKeys, LAMBDA k : ~HasKey(body, k))[i]) ]

WithParameters(c) ==
  IF c.dp
  THEN [c EXCEPT !.body = RemoveCenters(@ \o MissingEntries(@))]
  ELSE IF c.main
  THEN [c EXCEPT !.dp = TRUE, !.body = MissingEntries(<< >>)]
  ELSE c

addTransformParametersToCode(st) ==
  addTransformToMainFunction(
    IF st.current.dp /\ MissingEntries(st.current.body) = << >>
    THEN st
    ELSE StoreUpdate(st, WithParameters(st.current)))

\* Replace the arguments of the first call of that type, or chain a new
\* call at the end (lines 459-468, 542-559, 590-607)
FirstCall(chain, type) ==
  CHOOSE i \in 1..Len(chain) :
    chain[i].type = type /\ \A j \in 1..(i - 1) : chain[j].type # type

WithCall(chain, type, values) ==
  IF HasCall(chain, type)
  THEN [chain EXCEPT ![FirstCall(chain, type)].args = values]
  ELSE Append(chain, [type |-> type, args |-> values])

\* updateChainReturn (lines 447-476), updateComplexReturn (lines 481-571)
\* and updateSimpleReturn (lines 576-618)
updateChainReturn(st, objectName, transformType, values) ==
  IF objectName = ShapeName /\ st.current.ret # << >>
  THEN ValidatedUpdate(st, [st.current EXCEPT
                              !.ret = WithCall(@, transformType, values)])
  ELSE st

updateComplexReturn(st, objectName, transformType, values) ==
  IF objectName = ShapeName
  THEN ValidatedUpdate(st, [st.current EXCEPT
                              !.assign = WithCall(@, transformType, values)])
  ELSE st

updateSimpleReturn(st, objectName, transformType, values) ==
  IF objectName = ShapeName /\ st.current.ret = << >>
  THEN ValidatedUpdate(st, [st.current EXCEPT
                              !.ret = WithCall(@, transformType, values)])
  ELSE st

\* updateSelectedObjectTransform (lines 388-442); chain says whether the
\* analyzer reports a chain return on the selected object
updateSelectedObjectTransform(st, objectName, objectPath, transformType, values, chain) ==
  IF chain
  THEN updateChainReturn(st, objectName, transformType, values)
  ELSE IF objectPath # ""
  THEN updateComplexReturn(st, objectName, transformType, values)
  ELSE updateSimpleReturn(st, objectName, transformType, values)

\* ---------------------------------------------------------------- actions
\* The component right after construction.
SceneInit ==
  /\ puck = PuckStart
  /\ particles = DefaultParticles
  /\ points = << Origin >>
  /\ isPlaying = FALSE
  /\ last = Undefined
  /\ req = Undefined
  /\ clock = 0
  /\ rafQueue = {}
  /\ now = 0
  /\ addMode = FALSE
  /\ addCharge = 0
  /\ editMode = FALSE
  /\ editingParticleId = Null
  /\ lastEditPosition = Origin
  /\ editingLivePosition = Origin
  /\ editPositionTick = 0
  /\ lastEditPositionForField = Origin
  /\ clickTimeout = Null
  /\ showVf = TRUE
  /\ vectorField =
       vectorFieldDerived([ scene |-> Scene, puck |-> puck,
                            points |-> points,
                            vectorField |-> << >> ]).vectorField
  /\ fieldDirty = FALSE
  /\ recomputed = TRUE
  /\ fieldGhost = << >>
  /\ lastOp = "init"
  /\ steps = 0
  /\ sinceResume = 0
  /\ lastIssued = 0
  /\ maxIssued = 0

\* No CodeUpdater call has been made on the code the studio starts with.
CodeIdle ==
  /\ passed = {}
  /\ written = {}
  /\ codeOp = "none"
  /\ calls = 0

Init ==
  /\ SceneInit
  /\ code = PlainCode
  /\ CodeIdle

\* A handler runs: one step of the run's budget is spent.
Handler(op) ==
  /\ steps < MaxSteps
  /\ steps' = steps + 1
  /\ lastOp' = op
  /\ UNCHANGED codeVars

\* The panel's buttons are shown unless a source is being placed
\* (+page.svelte line 105).
ButtonsShown == ~addMode

\* The mesh with bind:ref={editChargeRef} is rendered (lines 454-462).
EditMeshShown == editMode /\ editingParticleId \in Ids(particles)

\* play / stop button (+page.svelte line 107) and the $effect on go; the
\* press comes FrameMs after the latest frame or press
TogglePlay ==
  /\ ButtonsShown
  /\ Handler(IF isPlaying THEN "stop" ELSE "play")
  /\ isPlaying' = ~isPlaying
  /\ SetClock(playStopEffect(~isPlaying, ClockState))
  /\ sinceResume' = IF isPlaying THEN sinceResume ELSE 0
  /\ now' = now + FrameMs
  /\ UNCHANGED << puckVars, particles, clock, addVars, editVars,
                  fieldVars, clickTimeout, issueVars, showVf >>
  /\ Publish(FALSE)

\* reset button (+page.svelte lines 26-36), then the $effect on go when go
\* changed and the $effect on resetVal (lines 185-215)
Reset ==
  /\ ButtonsShown
  /\ Handler("reset")
  /\ isPlaying' = FALSE
  /\ addCharge' = 0
  /\ addMode' = FALSE
  /\ LET c1 == IF isPlaying THEN playStopEffect(FALSE, ClockState)
                            ELSE ClockState
         pp == resetPuckEffect(puck, points)
     IN  /\ SetClock(resetClockEffect(c1))
         /\ clock' = 0
         /\ SetScene(resetSceneEffect(Scene))
         /\ puck' = pp.puck
         /\ points' = pp.points
  /\ lastIssued' = 0
  /\ maxIssued' = 0
  /\ showVf' = TRUE
  /\ UNCHANGED << now, fieldVars, clickTimeout, sinceResume >>
  /\ Publish(TRUE)

\* add proton / add electron buttons (+page.svelte lines 12-24)
AddProton ==
  /\ ButtonsShown
  /\ Handler("addProton")
  /\ addMode' = TRUE
  /\ addCharge' = ChargeUnit
  /\ UNCHANGED << clockVars, puckVars, particles, editVars, fieldVars,
                  clickTimeout, issueVars, showVf >>
  /\ Publish(FALSE)

AddElectron ==
  /\ ButtonsShown
  /\ Handler("addElectron")
  /\ addMode' = TRUE
  /\ addCharge' = -ChargeUnit
  /\ UNCHANGED << clockVars, puckVars, particles, editVars, fieldVars,
                  clickTimeout, issueVars, showVf >>
  /\ Publish(FALSE)

\* done button or double click on the placed mesh: confirmAdd, then
\* addModeFunc (+page.svelte line 149)
ConfirmAdd ==
  /\ addMode
  /\ Handler("confirmAdd")
  /\ \E pos \in AddPositions :
       LET s1 == confirmAdd(Scene, addMode, pos, addCharge)
           id == s1.particles[Len(s1.particles)].id
       IN  /\ SetScene(s1)
           /\ lastIssued' = id
           /\ maxIssued' = IF lastIssued > maxIssued THEN lastIssued
                                                    ELSE maxIssued
  /\ addMode' = FALSE
  /\ UNCHANGED << clockVars, puckVars, addCharge, fieldVars, clickTimeout,
                  showVf >>
  /\ Publish(TRUE)


\* click on a source: handleSingleClick (lines 299-306) re-arms the timer
SingleClick ==
  /\ Handler("click")
  /\ \E id \in Ids(particles) : clickTimeout' = id
  /\ UNCHANGED << clockVars, puckVars, particles, addVars, editVars,
                  fieldVars, issueVars, showVf >>
  /\ Publish(FALSE)

\* the single-click timer fires after ClickDelay ms
TimerFire ==
  /\ clickTimeout # Null
  /\ Handler("timer")
  /\ SetScene(singleClickCallback(Scene, clickTimeout))
  /\ clickTimeout' = Null
  /\ UNCHANGED << clockVars, puckVars, addVars, fieldVars, issueVars,
                  showVf >>
  /\ Publish(FALSE)

\* double click on the mesh being edited (lines 308-312)
DoubleClickConfirmEdit ==
  /\ EditMeshShown
  /\ Handler("confirmEdit")
  /\ clickTimeout' = Null
  /\ SetScene(doubleClickConfirmEdit(Scene))
  /\ UNCHANGED << clockVars, puckVars, addVars, fieldVars, issueVars,
                  showVf >>
  /\ Publish(editingParticleId # Null)

\* double click on a source that is not being edited (lines 314-317)
DoubleClickDelete ==
  /\ Handler("delete")
  /\ clickTimeout' = Null
  /\ \E id \in Ids(particles) :
       /\ ~(editMode /\ editingParticleId = id)
       /\ SetScene(doubleClickDelete(Scene, id))
  /\ UNCHANGED << clockVars, puckVars, addVars, fieldVars, issueVars,
                  showVf >>
  /\ Publish(TRUE)

\* the gizmo of the edited mesh reports a change (line 456)
DragEdit ==
  /\ EditMeshShown
  /\ Handler("drag")
  /\ \E world \in EditPositions :
       LET u == updateLiveEditPosition(
                  editingLivePosition,
                  <<lastEditPositionForField, editPositionTick>>,
                  EditMeshShown, world)
       IN  /\ editingLivePosition' = u.live
           /\ lastEditPositionForField' = u.forField
           /\ editPositionTick' = u.tick
  /\ UNCHANGED << clockVars, puckVars, particles, addVars, editMode,
                  editingParticleId, lastEditPosition, clickTimeout,
                  issueVars, showVf >>
  /\ Publish(FALSE)

\* the browser runs a registered frame callback, FrameMs after the
\* previous frame
Frame ==
  /\ Handler("frame")
  /\ \E h \in rafQueue :
       SetFrame(animate(isPlaying, Scene, FrameState(h), now + FrameMs))
  /\ now' = now + FrameMs
  /\ sinceResume' = IF sinceResume < 2 THEN sinceResume + 1 ELSE 2
  /\ UNCHANGED << isPlaying, particles, addVars, editVars, fieldVars,
                  clickTimeout, issueVars, showVf >>
  /\ Publish(FALSE)

\* hide / show vector field button (+page.svelte line 112)
ToggleField ==
  /\ ButtonsShown
  /\ Handler(IF showVf THEN "hideField" ELSE "showField")
  /\ showVf' = ~showVf
  /\ UNCHANGED << clockVars, puckVars, particles, addVars, editVars,
                  fieldVars, clickTimeout, issueVars >>
  /\ Publish(FALSE)

Next ==
  \/ TogglePlay
  \/ Reset
  \/ AddProton
  \/ AddElectron
  \/ ConfirmAdd
  \/ SingleClick
  \/ TimerFire
  \/ DoubleClickConfirmEdit
  \/ DoubleClickDelete
  \/ DragEdit
  \/ Frame
  \/ ToggleField

Spec == Init /\ [][Next]_vars

\* ---------------------------------------------------- code updater actions
\* The store a CodeUpdater method starts on, and a call that leaves st.
StoreAtCall == [current |-> code, passed |-> {}, written |-> {}]

CodeCall(op, st) ==
  /\ calls < MaxCalls
  /\ calls' = calls + 1
  /\ codeOp' = op
  /\ code' = st.current
  /\ passed' = st.passed
  /\ written' = st.written
  /\ UNCHANGED sceneVars

\* What the gumball hands over: a total displacement, a total rotation, and
\* the selection (an object the code names or not, with a path or with the
\* empty one).
Displacements == { <<Num(1), 0, 0>>, <<-12345, 0, Num(1) \div 2>> }
Rotations == { << Num(30), <<0, 0, Num(1)>> >> }
ObjectNames == { ShapeName, "lid" }
ObjectPaths == { "", "shape" }

CallUpdateTranslationParams ==
  \E d \in Displacements :
    CodeCall("updateTranslationParams",
             updateTranslationParams(StoreAtCall, d))

CallUpdateRotationParams ==
  \E r \in Rotations :
    CodeCall("updateRotationParams",
             updateRotationParams(StoreAtCall, r[1], r[2]))

CallAddTransformParametersToCode ==
  CodeCall("addTransformParametersToCode",
           addTransformParametersToCode(StoreAtCall))

CallAddTransformToMainFunction ==
  CodeCall("addTransformToMainFunction",
           addTransformToMainFunction(StoreAtCall))

CallUpdateSelectedObjectTransform ==
  \E objectName \in ObjectNames, objectPath \in ObjectPaths,
     chain \in BOOLEAN :
    \/ \E d \in Displacements :
         CodeCall("updateSelectedObjectTransform",
                  updateSelectedObjectTransform(StoreAtCall, objectName,
                    objectPath, "translate", d, chain))
    \/ \E r \in Rotations :
         CodeCall("updateSelectedObjectTransform",
                  updateSelectedObjectTransform(StoreAtCall, objectName,
                    objectPath, "rotate",
                    << r[1], r[2][1], r[2][2], r[2][3] >>, chain))

CodeInit ==
  /\ SceneInit
  /\ code \in SampleCodes
  /\ CodeIdle

CodeNext ==
  \/ CallUpdateTranslationParams
  \/ CallUpdateRotationParams
  \/ CallAddTransformParametersToCode
  \/ CallAddTransformToMainFunction
  \/ CallUpdateSelectedObjectTransform

CodeSpec == CodeInit /\ [][CodeNext]_vars

\* ------------------------------------------------------------- properties
\* Helpers of the properties below.
Pos(p) == <<p.x, p.y, p.z>>
MaxId(parts) == CHOOSE m \in Ids(parts) : \A k \in Ids(parts) : k <= m

\* The scene with no ghost in which the source named id sits at pos.
SceneWith(id, pos) ==
  [ Scene EXCEPT
      !.editMode = FALSE,
      !.particles =
        [ i \in 1..Len(particles) |->
            IF particles[i].id = id
            THEN [ id |-> id, x |-> pos[1], y |-> pos[2], z |-> pos[3],
                   charge |-> particles[i].charge ]
            ELSE particles[i] ] ]

\* Where the field is compared: on the axis through the puck and the
\* default source, and at the puck.
FixedPoints == { Origin, <<0, Num(1), 0>>, <<0, Num(3), 0>> }
QueryPoints == FixedPoints \cup { <<puck.x, puck.y, puck.z>> }

\* A scene without a ghost that holds the sources parts.
SceneOf(parts) ==
  [ particles           |-> parts,
    editMode            |-> FALSE,
    editingParticleId   |-> Null,
    lastEditPosition    |-> Origin,
    editingLivePosition |-> Origin ]

\* Source lists the pure functions are tried on: none, the default one, the
\* default one with a proton below or beside the puck's start.
SampleSources ==
  { << >>,
    DefaultParticles,
    Append(DefaultParticles,
           [id |-> 2, x |-> 0, y |-> -Num(3), z |-> 0, charge |-> ChargeUnit]),
    Append(DefaultParticles,
           [id |-> 2, x |-> Num(1), y |-> 0, z |-> 0, charge |-> ChargeUnit]) }

\* Bodies the integrator is tried on: at rest, slow and fast along an axis.
SampleBodies ==
  { PuckStart,
    [PuckStart EXCEPT !.y = Num(1), !.vy = Num(3)],
    [PuckStart EXCEPT !.y = -Num(1), !.vy = -Num(12)],
    [PuckStart EXCEPT !.x = Num(1), !.vx = Num(2)] }

\* Frame intervals the integrator is tried on: a second and half a second.
SampleDts == { Num(1), Num(1) \div 2 }

\* The scene s with the charge of every source negated, and the negation
\* of a vector (NaN stays NaN).
NegCharges(s) ==
  [s EXCEPT !.particles =
     [ i \in 1..Len(s.particles) |->
         [s.particles[i] EXCEPT !.charge = -s.particles[i].charge] ]]

NegVec(v) == [ k \in 1..3 |-> IF v[k] = NaN THEN NaN ELSE -v[k] ]

\* The field of the single source p of the scene at hand, ghost included,
\* at the point dy above the source's effective position; the point just
\* inside the softening radius; and the distance of two numbers.
FieldAbove(p, dy) ==
  vf([Scene EXCEPT !.particles = << p >>],
     EffectivePos(Scene, p)[1], EffectivePos(Scene, p)[2] + dy,
     EffectivePos(Scene, p)[3])

JustInside == Num(RADIUS) - 1

Gap(a, b) == IF a = NaN \/ b = NaN THEN NaN ELSE Abs(a - b)

\* Two component states that differ in the value of vectorField at most.
SameButField(a, b) ==
  a.scene = b.scene /\ a.puck = b.puck /\ a.points = b.points

\* The core state: puck, sources, trail, ghost, and the clock (running or
\* idle, registered callbacks, simulated time).
CoreState ==
  [ puck |-> puck, particles |-> particles, points |-> points,
    editMode |-> editMode, editingParticleId |-> editingParticleId,
    isPlaying |-> isPlaying, rafQueue |-> rafQueue, clock |-> clock ]

\* The core state right after initialisation (lines 50-66, 116, 124-127,
\* 261-263).
InitialCoreState ==
  [ puck |-> PuckStart, particles |-> DefaultParticles,
    points |-> << Origin >>,
    editMode |-> FALSE, editingParticleId |-> Null,
    isPlaying |-> FALSE, rafQueue |-> {}, clock |-> 0 ]

\* C1: after reset, whatever the state before it, the puck is at rest at
\* the origin, the trail is empty and the store holds exactly the default
\* source {id 1, (0, 2, 0), -0.001}.
C1_ResetYieldsDefault ==
  lastOp = "reset" =>
    /\ puck = [x |-> 0, y |-> 0, z |-> 0, vx |-> 0, vy |-> 0, vz |-> 0]
    /\ points = << >>
    /\ particles = << [id |-> 1, x |-> 0, y |-> 2 * Scale, z |-> 0,
                       charge |-> -ChargeUnit] >>

\* C1 witness: a reset that follows at least two frames of one run, the
\* second of which moved the puck and grew the trail.
C1_ResetAfterMotion == lastOp = "reset" /\ sinceResume = 2

\* C2: while a ghost is active the field is the field of the scene with the
\* target moved to the ghost position, and neither beginning a ghost (the
\* timer callback) nor updating it (a drag) changes a stored source.
C2_GhostOverridesField ==
  /\ [](editMode =>
          \A q \in QueryPoints :
            vf(Scene, q[1], q[2], q[3])
              = vf(SceneWith(editingParticleId, editingLivePosition),
                   q[1], q[2], q[3]))
  /\ [][lastOp' \in {"timer", "drag"} => particles' = particles]_vars

\* C2 witness: a drag has put the ghost away from the stored position of
\* its target, and the field at the origin differs from the stored one.
C2_GhostMovedField ==
  /\ lastOp = "drag"
  /\ editMode
  /\ \E i \in 1..Len(particles) :
       /\ particles[i].id = editingParticleId
       /\ Pos(particles[i]) # editingLivePosition
  /\ vf(Scene, 0, 0, 0) # vf([Scene EXCEPT !.editMode = FALSE], 0, 0, 0)

\* C3: a commit writes the ghost position into the target only (same ids,
\* same charges, every other source where it was) and leaves no ghost;
\* stopEditing alone leaves no ghost and changes no stored source.
C3_CommitMovesTargetOnly ==
  /\ [][lastOp' = "confirmEdit" =>
          /\ Len(particles') = Len(particles)
          /\ \A i \in 1..Len(particles) :
               /\ particles'[i].id = particles[i].id
               /\ particles'[i].charge = particles[i].charge
               /\ Pos(particles'[i]) =
                    IF particles[i].id = editingParticleId
                    THEN editingLivePosition
                    ELSE Pos(particles[i])
          /\ ~editMode'
          /\ editingParticleId' = Null]_vars
  /\ [](/\ ~stopEditing(Scene).editMode
        /\ stopEditing(Scene).editingParticleId = Null
        /\ stopEditing(Scene).particles = particles)

\* C3 witness: a commit has just put one of two sources at a dragged
\* position.
C3_CommittedDrag ==
  /\ lastOp = "confirmEdit"
  /\ Len(particles) = 2
  /\ \E i \in 1..2 : Pos(particles[i]) \in EditPositions

\* C4: at most one source is shadowed by a ghost, a ghost is active exactly
\* when a target is named, a click (and its timer) during an edit leaves
\* the ghost as it is, and a confirm or a reset leaves no ghost.
C4_SingleGhost ==
  /\ [](/\ Cardinality({ i \in 1..Len(particles) :
                           editMode /\ particles[i].id = editingParticleId })
             <= 1
        /\ editMode <=> editingParticleId # Null)
  /\ [][editMode /\ lastOp' \in {"click", "timer"} =>
          /\ editMode'
          /\ editingParticleId' = editingParticleId
          /\ editingLivePosition' = editingLivePosition]_vars
  /\ [][lastOp' \in {"confirmEdit", "reset"} =>
          ~editMode' /\ editingParticleId' = Null]_vars

\* C4 witness: during an edit a click on another source has armed the
\* timer, which can still fire.
C4_ClickOnSecondSource ==
  /\ lastOp = "click"
  /\ editMode
  /\ editingParticleId \in Ids(particles)
  /\ clickTimeout \in Ids(particles) \ {editingParticleId}
  /\ steps < MaxSteps

\* C5: an add appends one source, changes none of the others, and gives it
\* the id max + 1, or 1 in an empty store.
C5_AddAssignsMaxPlusOne ==
  [][lastOp' = "confirmAdd" =>
       /\ Len(particles') = Len(particles) + 1
       /\ SubSeq(particles', 1, Len(particles)) = particles
       /\ particles'[Len(particles')].id =
            IF particles = << >> THEN 1 ELSE MaxId(particles) + 1]_vars

\* C5 witness: an add into a store whose first source was removed, so that
\* the largest id is not the number of sources.
C5_AddAfterRemove ==
  /\ lastOp = "confirmAdd"
  /\ Len(particles) = 2
  /\ particles[1].id = 2
  /\ particles[2].id = 3

\* C6: no two sources of the store have the same id.
C6_IdsUnique ==
  \A i, j \in 1..Len(particles) :
    i # j => particles[i].id # particles[j].id

\* C6 witness: two sources, the second added after the first source of the
\* store was removed.
C6_TwoSourcesAfterRemove ==
  /\ Len(particles) = 2
  /\ particles[1].id > 1
  /\ lastIssued = particles[2].id

\* C7 as stated: between two resets every id an add returns is greater than
\* every id an earlier add returned.
C7_NeverReissued == lastIssued # 0 => lastIssued > maxIssued

\* C7, amended: ids grow along the store.  The store is always strictly
\* increasing in id and an add returns an id greater than every id then in
\* the store; the id of a removed source is returned again once no source
\* with that id or a larger one is left.
C7_IdsGrowAlongStore ==
  /\ [](\A i, j \in 1..Len(particles) :
          i < j => particles[i].id < particles[j].id)
  /\ [][lastOp' = "confirmAdd" =>
          \A k \in Ids(particles) : lastIssued' > k]_vars

\* C7 witness: an add has returned an id that an earlier add of the same
\* run had returned.
C7_IdReissued ==
  /\ lastOp = "confirmAdd"
  /\ lastIssued # 0
  /\ lastIssued <= maxIssued

\* C8 as stated: an operation on an id that is not in the store does
\* nothing.  A delete or a commit on such an id leaves the store as it is,
\* and a timer callback that begins a ghost on such an id leaves the ghost
\* state as it is.
C8_UnknownIdIsNoOp ==
  /\ [](\A id \in (1..(MaxSteps + 2)) \ Ids(particles) :
          /\ doubleClickDelete(Scene, id).particles = particles
          /\ confirmEdit([Scene EXCEPT !.editingParticleId = id]).particles
               = particles)
  /\ [][lastOp' = "timer" /\ clickTimeout \notin Ids(particles) =>
          editMode' = editMode /\ editingParticleId' = editingParticleId]_vars

\* C9: the first frame callback after a play runs with elapsed time 0: it
\* takes its own timestamp as the base, and leaves the clock value and the
\* puck as they were.
C9_FirstFrameAfterResume ==
  /\ [](isPlaying /\ sinceResume = 0 =>
          \A h \in rafQueue : FrameDt(FrameState(h), now + FrameMs) = 0)
  /\ [][lastOp' = "frame" /\ sinceResume' = 1 =>
          clock' = clock /\ puck' = puck /\ last' = now']_vars

\* C9 witness: the first frame after a resume, the run before the stop
\* having advanced the clock.
C9_ResumedAfterRun ==
  /\ lastOp = "frame"
  /\ sinceResume = 1
  /\ clock > 0

\* C10: while the clock is idle no frame callback is registered, a step
\* that ends idle and is no reset leaves the puck and the trail as they
\* were, and a callback that runs while idle changes neither.
C10_IdleKeepsPuck ==
  /\ [](~isPlaying => rafQueue = {})
  /\ [][~isPlaying' /\ lastOp' # "reset" =>
          puck' = puck /\ points' = points]_vars
  /\ [](\A h \in 1..2 :
          /\ animate(FALSE, Scene, FrameState(h), now + FrameMs).puck = puck
          /\ animate(FALSE, Scene, FrameState(h), now + FrameMs).points
               = points
          /\ animate(FALSE, Scene, FrameState(h), now + FrameMs).rafQueue
               = rafQueue \ {h})

\* C10 witness: the clock was stopped after the puck had moved, and a later
\* handler has run while idle.
C10_IdleAfterMotion ==
  /\ ~isPlaying
  /\ lastOp \in {"click", "addProton", "addElectron", "delete"}
  /\ puck.vy # 0
  /\ Len(points) >= 3

\* C11: updatePuck with dt = 0 leaves position and velocity as they were,
\* for the sample bodies and the puck at hand, in the sample scenes and the
\* scene at hand; and a frame callback whose elapsed time is 0 leaves the
\* puck as it was (and still pushes one trail point).
C11_ZeroDtKeepsBody ==
  /\ [](\A pk \in SampleBodies \cup {puck} :
          /\ updatePuck(Scene, pk, points, 0).puck = pk
          /\ \A parts \in SampleSources :
               updatePuck(SceneOf(parts), pk, points, 0).puck = pk)
  /\ [][lastOp' = "frame" /\ isPlaying /\ clock' = clock =>
          puck' = puck /\ Len(points') = Len(points) + 1]_vars

\* C11 witness: a frame callback with elapsed time 0 has run on a moving
\* puck.
C11_ZeroDtFrameOnMovingPuck ==
  /\ lastOp = "frame"
  /\ sinceResume = 1
  /\ puck.vy # 0
  /\ puck.y # 0

\* C12 as stated: with no sources updatePuck(dt) leaves the velocity as it
\* was and moves the position by velocity * dt, for the sample bodies and
\* intervals, and so does a frame callback that runs on an empty store.
C12_BallisticBaseline ==
  /\ [](\A pk \in SampleBodies : \A dt \in SampleDts :
          updatePuck(SceneOf(<< >>), pk, << >>, dt).puck
            = [pk EXCEPT !.x = Add(pk.x, Mul(pk.vx, dt)),
                         !.y = Add(pk.y, Mul(pk.vy, dt)),
                         !.z = Add(pk.z, Mul(pk.vz, dt))])
  /\ [][lastOp' = "frame" /\ particles = << >> =>
          puck' = [puck EXCEPT
                     !.x = Add(puck.x, Mul(puck.vx, clock' - clock)),
                     !.y = Add(puck.y, Mul(puck.vy, clock' - clock)),
                     !.z = Add(puck.z, Mul(puck.vz, clock' - clock))]]_vars

\* C13 as stated: at the effective position of a source the field is a
\* finite vector, and the position and velocity of the puck are finite,
\* also when a source sits exactly on the puck.
C13_FiniteAtSource ==
  /\ \A i \in 1..Len(particles) :
       EffectivePos(Scene, particles[i]) = <<puck.x, puck.y, puck.z>> =>
         \A k \in 1..3 : vf(Scene, puck.x, puck.y, puck.z)[k] # NaN
  /\ \A c \in {puck.x, puck.y, puck.z, puck.vx, puck.vy, puck.vz} : c # NaN

\* C14: over an empty store vf is the zero vector at every query point, in
\* the scene at hand and with or without a ghost, whatever the ghost's
\* target and position.
C14_EmptyStoreZeroField ==
  \A q \in QueryPoints :
    /\ particles = << >> => vf(Scene, q[1], q[2], q[3]) = <<0, 0, 0>>
    /\ \A g \in BOOLEAN : \A id \in 0..2 : \A e \in EditPositions :
         vf([SceneOf(<< >>) EXCEPT !.editMode = g,
                                   !.editingParticleId = id,
                                   !.editingLivePosition = e],
            q[1], q[2], q[3]) = <<0, 0, 0>>

\* C14 witness: the store is empty while a ghost is active.
C14_EmptyStoreWithGhost ==
  /\ particles = << >>
  /\ editMode
  /\ editingParticleId # Null

\* C15: negating the charge of every source negates vf at every query
\* point, for the scene at hand (ghost included) and for the sample source
\* lists (which do not depend on the state and are tried once, at the
\* start).
C15_NegatedChargesNegateField ==
  /\ \A q \in QueryPoints :
       vf(NegCharges(Scene), q[1], q[2], q[3])
         = NegVec(vf(Scene, q[1], q[2], q[3]))
  /\ steps = 0 =>
       \A q \in FixedPoints : \A parts \in SampleSources :
         vf(NegCharges(SceneOf(parts)), q[1], q[2], q[3])
           = NegVec(vf(SceneOf(parts), q[1], q[2], q[3]))

\* C15 witness: the store holds sources of both signs and the field at the
\* origin is finite and not zero.
C15_MixedChargesFieldNonZero ==
  /\ \E i, j \in 1..Len(particles) :
       particles[i].charge < 0 /\ particles[j].charge > 0
  /\ vf(Scene, 0, 0, 0)[2] \notin {0, NaN}

\* C16: at r = RADIUS the softened factor pow(r / RADIUS, 2) / pow(r,
\* decay + 1) equals the unsoftened factor 1 / pow(r, decay + 1), as the
\* code writes them and as Factor computes them, and the field of each
\* single source of the scene has no jump there: at distance RADIUS and
\* just inside it the field differs by at most one unit of the last digit.
C16_BranchesAgreeAtRadius ==
  /\ Div(MathPow(Div(Num(RADIUS), Num(RADIUS)), 2),
         MathPow(Num(RADIUS), decay + 1))
       = Div(Num(1), MathPow(Num(RADIUS), decay + 1))
  /\ FactorSoft(Num(RADIUS)) = FactorHard(Num(RADIUS))
  /\ Factor(Num(RADIUS)) = FactorHard(Num(RADIUS))
  /\ Factor(JustInside) = FactorSoft(JustInside)
  /\ Gap(Factor(JustInside), Factor(Num(RADIUS))) <= 1
  /\ \A i \in 1..Len(particles) : \A k \in 1..3 :
       Gap(FieldAbove(particles[i], -JustInside)[k],
           FieldAbove(particles[i], -Num(RADIUS))[k]) \in {0, 1}

\* C16 witness: the clock runs and the puck is at distance exactly RADIUS
\* from a source, where the field is not zero: the next frame evaluates the
\* factor at r = RADIUS.
C16_PuckAtRadius ==
  /\ isPlaying
  /\ \E i \in 1..Len(particles) :
       /\ Distance(EffectivePos(Scene, particles[i]),
                   <<puck.x, puck.y, puck.z>>) = Num(RADIUS)
       /\ FieldAbove(particles[i], -Num(RADIUS))[2] # 0

\* C17: evaluating the field changes nothing but its result.  An
\* evaluation of vectorField returns the sources, the ghost, the puck and
\* the trail as they were; a handler that does nothing but bring about a
\* recomputation (showing the field again, a drag beyond the threshold)
\* leaves the sources, the ghost's target, the puck and the trail as they
\* were; and a frame, in which the integrator evaluates the field, leaves
\* the sources and the ghost as they were.
C17_FieldEvaluationReadsOnly ==
  /\ [](SameButField(vectorFieldDerived(Component), Component))
  /\ [][recomputed' /\ lastOp' \in {"showField", "drag"} =>
          /\ particles' = particles
          /\ editMode' = editMode
          /\ editingParticleId' = editingParticleId
          /\ puck' = puck
          /\ points' = points]_vars
  /\ [][recomputed' /\ lastOp' = "showField" =>
          editingLivePosition' = editingLivePosition]_vars
  /\ [][lastOp' = "frame" =>
          /\ particles' = particles
          /\ editMode' = editMode
          /\ editingParticleId' = editingParticleId
          /\ editingLivePosition' = editingLivePosition]_vars

\* C17 witness: a drag has just made the sampler recompute while the ghost
\* is away from the stored position of its target.
C17_RecomputedDuringEdit ==
  /\ lastOp = "drag"
  /\ recomputed
  /\ editMode
  /\ \E i \in 1..Len(particles) :
       /\ particles[i].id = editingParticleId
       /\ Pos(particles[i]) # editingLivePosition

\* C18: over an empty store every sample has magnitude 0 and arrow length
\* 0: the field and its magnitude are 0 at every sampled lattice point, a
\* recomputation with the store emptied gives length 0 (whatever the ghost
\* at hand), and the samples in place while the store is empty and no
\* recomputation is due are arrows of length 0 that start and end at their
\* lattice point.
C18_EmptyStoreZeroSamples ==
  \A i \in 1..Len(fieldPoints) :
    /\ MathHypot(vf([Scene EXCEPT !.particles = << >>], fieldPoints[i][1],
                     fieldPoints[i][2], fieldPoints[i][3])[1],
                  vf([Scene EXCEPT !.particles = << >>], fieldPoints[i][1],
                     fieldPoints[i][2], fieldPoints[i][3])[2],
                  vf([Scene EXCEPT !.particles = << >>], fieldPoints[i][1],
                     fieldPoints[i][2], fieldPoints[i][3])[3]) = 0
    /\ vectorFieldDerived([Component EXCEPT !.scene.particles = << >>])
         .vectorField[i].length = 0
    /\ particles = << >> /\ ~fieldDirty =>
         /\ vectorField[i].length = 0
         /\ vectorField[i].shaftPos = fieldPoints[i]
         /\ vectorField[i].headPos = fieldPoints[i]

\* C18 witness: the last source was just removed and the sampler has
\* recomputed over the empty store.
C18_RecomputedOnEmptyStore ==
  /\ lastOp = "delete"
  /\ particles = << >>
  /\ recomputed

\* C19 as stated: right after a reset the core state is the core state the
\* program has right after initialisation.
C19_ResetRestoresInitialState ==
  /\ steps = 0 => CoreState = InitialCoreState
  /\ lastOp = "reset" => CoreState = InitialCoreState

\* C20 as stated: a recomputation reads the state the handler left, and in
\* a frame the samples in place are those of the store and ghost the
\* integrator reads in that frame.
C20_SameSnapshotInFrame ==
  /\ [][recomputed' =>
          vectorField' = vectorFieldDerived(ComponentAfter).vectorField]_vars
  /\ [][lastOp' = "frame" /\ isPlaying /\ showVf =>
          vectorField = vectorFieldDerived(Component).vectorField]_vars

\* C20, amended: a recomputation reads the state the handler left; the
\* samples on display are those of the current store and ghost target with
\* the ghost at the position the latest recomputation read, which is every
\* frame's snapshot while no edit is active; during an edit that position
\* is within twice the threshold of the ghost position the integrator
\* reads.
C20_SnapshotOfLatestRecompute ==
  /\ [][recomputed' =>
          /\ vectorField' = vectorFieldDerived(ComponentAfter).vectorField
          /\ fieldGhost' = GhostRead(Scene')]_vars
  /\ [](showVf =>
          /\ ~fieldDirty
          /\ vectorField =
               vectorFieldDerived(
                 [Component EXCEPT !.scene.editingLivePosition =
                    IF fieldGhost = << >> THEN editingLivePosition
                    ELSE fieldGhost]).vectorField)
  /\ [](showVf /\ GhostRead(Scene) = << >> =>
          vectorField = vectorFieldDerived(Component).vectorField)
  /\ [](showVf /\ GhostRead(Scene) # << >> =>
          /\ fieldGhost # << >>
          /\ Distance(fieldGhost, editingLivePosition)
               <= 2 * vectorFieldUpdateThreshold)
  /\ [][lastOp' = "frame" =>
          /\ particles' = particles
          /\ GhostRead(Scene') = GhostRead(Scene)
          /\ vectorField' = vectorField]_vars

\* C20 witness: a frame has run while the samples on display were computed
\* with the ghost at another position than the integrator read.
C20_FrameWithStaleSamples ==
  /\ lastOp = "frame"
  /\ isPlaying
  /\ showVf
  /\ GhostRead(Scene) # << >>
  /\ fieldGhost # GhostRead(Scene)

\* The sample source lists and bodies that lie on the y axis.
AxisSources ==
  { parts \in SampleSources : \A i \in 1..Len(parts) : parts[i].x = 0 }

AxisBodies == { pk \in SampleBodies : pk.x = 0 }

\* The trail updatePuck leaves is the trail it found with the position it
\* leaves appended.
PushesResult(u, pts) == u.points = Append(pts, <<u.puck.x, u.puck.y, u.puck.z>>)

\* C21: the trail grows by exactly one entry, the puck position that
\* results, in every call of updatePuck (sample bodies, source lists and
\* intervals, dt = 0 included) and so in every frame callback, which only
\* runs while the clock runs; a reset empties it; every other handler, a
\* recomputation of the samples included, leaves it as it was.
C21_TrailAppendOnly ==
  /\ [](steps = 0 =>
          \A pk \in AxisBodies : \A parts \in AxisSources :
            \A dt \in SampleDts \cup {0} :
              PushesResult(updatePuck(SceneOf(parts), pk, points, dt), points))
  /\ [][lastOp' = "frame" =>
          /\ isPlaying
          /\ points' = Append(points, <<puck'.x, puck'.y, puck'.z>>)]_vars
  /\ [][lastOp' = "reset" => points' = << >>]_vars
  /\ [][lastOp' \notin {"frame", "reset"} => points' = points]_vars
  /\ [](vectorFieldDerived(Component).points = points)

\* C21 witness: a frame has pushed a third point onto a trail whose second
\* point is another position, after which a handler other than a frame or
\* a reset has run.
C21_TrailOfThreeThenOther ==
  /\ lastOp \in {"stop", "click", "hideField", "addProton"}
  /\ Len(points) >= 3
  /\ points[Len(points)] # points[Len(points) - 1]
  /\ points[Len(points)] = <<puck.x, puck.y, puck.z>>

\* C22 as stated: every code a CodeUpdater method hands to the store has
\* passed the syntax check in that call, and the stored code parses
\* whenever the code the studio started with did.
C22_OnlyCheckedCodeIsWritten ==
  /\ written \subseteq passed
  /\ Parses(code)

\* The first k substeps of the while loop from loop state w are positive
\* and keep runningTime within dt.
GoodStep(h, runningTime, dt) ==
  /\ h # NaN
  /\ h > 0
  /\ runningTime + h <= dt

RECURSIVE GoodSteps(_, _, _, _)
GoodSteps(s, w, dt, k) ==
  \/ ~w[3]
  \/ k = 0
  \/ /\ GoodStep(StepSize(w[1], dt, w[2]), w[2], dt)
     /\ GoodSteps(s, WhilePass(s, w, dt), dt, k - 1)

MaxPasses == 40   \* substeps looked at in one call of updatePuck

PuckVector == << puck.x, puck.y, puck.z, puck.vx, puck.vy, puck.vz >>

\* C23 as stated: in the updatePuck call of every frame each substep is
\* positive and keeps runningTime within dt, and the loop ends with
\* runningTime = dt.
C23_SubstepsSumToDt ==
  isPlaying =>
    \A h \in rafQueue :
      /\ GoodSteps(Scene, WhileState(PuckVector, 0,
                                     FrameDt(FrameState(h), now + FrameMs)),
                   FrameDt(FrameState(h), now + FrameMs), MaxPasses)
      /\ PuckLoopEnd(Scene,
                     WhileState(PuckVector, 0,
                                FrameDt(FrameState(h), now + FrameMs)),
                     FrameDt(FrameState(h), now + FrameMs), 1)[2]
           = FrameDt(FrameState(h), now + FrameMs)

\* One pass of the while loop took w to w2: runningTime grew by a positive
\* amount and is a number.
Advanced(w, w2) == w2[2] # NaN /\ w2[2] > w[2]

\* One pass took w to w2: runningTime grew by MinStep at least and stays
\* within dt, or the speed is NaN and runningTime has become NaN.
AdvancedOrNaN(w, w2, dt) ==
  IF MathHypot(w[1][4], w[1][5], w[1][6]) = NaN
  THEN w2[2] = NaN /\ ~w2[3]
  ELSE w2[2] # NaN /\ w2[2] >= w[2] + MinStep /\ w2[2] <= dt

RECURSIVE AllAdvance(_, _, _, _)
AllAdvance(s, w, dt, k) ==
  \/ ~w[3]
  \/ k = 0
  \/ /\ Advanced(w, WhilePass(s, w, dt))
     /\ AllAdvance(s, WhilePass(s, w, dt), dt, k - 1)

\* From loop state w, whose test holds and whose pass leads to w2, the
\* loop ends within k passes, each of which advances runningTime or ends
\* the loop on NaN.
RECURSIVE EndsAdvancing(_, _, _, _, _)
EndsAdvancing(s, w, w2, dt, k) ==
  /\ AdvancedOrNaN(w, w2, dt)
  /\ \/ ~w2[3]
     \/ k > 1 /\ EndsAdvancing(s, w2, WhilePass(s, w2, dt), dt, k - 1)

LoopEndsFrom(s, w, dt) ==
  ~w[3] \/ EndsAdvancing(s, w, WhilePass(s, w, dt), dt, MaxPasses)

\* The loop of updatePuck(dt) on body v in scene s ends within MaxPasses
\* passes, each of which advances runningTime or ends the loop on NaN.
LoopEnds(s, v, dt) == LoopEndsFrom(s, WhileState(v, 0, dt), dt)

\* A body whose position and velocity are NaN.
NaNBody == << NaN, NaN, NaN, NaN, NaN, NaN >>

VectorOf(pk) == << pk.x, pk.y, pk.z, pk.vx, pk.vy, pk.vz >>

SampleFields ==
  { Origin, <<25, 0, 0>>, <<0, Num(1) \div 2, 0>>, <<0, 0, -Num(1)>>,
    <<Num(3), 0, 0>> }

HypotOf(f) == MathHypot(f[1], f[2], f[3])

\* The magnitude of the field at lattice point i in the scene at hand.
FieldMagAt(i) ==
  HypotOf(vf(Scene, fieldPoints[i][1], fieldPoints[i][2], fieldPoints[i][3]))

\* The arrow length of the formula 1.5 / max(magnitude, 1) for a field of
\* magnitude m.
ClampedLength(m) == Mul(m, Div(ArrowScale, MathMax(m, Num(1))))

\* len is target up to the rounding of an arrow whose field has magnitude
\* m: the magnitude is rounded down by less than one unit, which changes
\* the length by less than 1.5 / m units, and the products by a unit each.
UpToRounding(len, target, m) ==
  len # NaN /\ Abs(len - target) <= ArrowScale \div m + 3

\* The component along one axis of an arrow of length 1.5 that points the
\* way of a field along an axis, c the field's component on that axis.
AxisArrow(c) == IF c = 0 THEN 0 ELSE Sgn(c) * ArrowScale

\* C25 as stated: the arrow length is 1.5 times the magnitude for a field
\* of magnitude at most 1 and 1.5 for a stronger one: for the sample
\* fields, and for the samples a recomputation has just put in place.
C25_LengthProportionalBelowOne ==
  /\ steps = 0 =>
       \A f \in SampleFields : \A q \in FixedPoints :
         SampleOfField(SceneOf(DefaultParticles), q, f).length
           = ClampedLength(HypotOf(f))
  /\ recomputed =>
       \A i \in 1..Len(fieldPoints) :
         FieldMagAt(i) \notin {0, NaN} =>
           UpToRounding(vectorField[i].length, ClampedLength(FieldMagAt(i)),
                        FieldMagAt(i))

\* C25, amended: the arrow length is 1.5 for every field that is not zero,
\* weaker than 1 or not, and 0 for the zero field, so it never exceeds 1.5
\* (up to rounding): for the sample fields, where the arrow reaches from
\* the lattice point 1.5 along the field, and for the samples a
\* recomputation has just put in place.
C25_UniformArrowLength ==
  /\ steps = 0 =>
       \A f \in SampleFields : \A q \in FixedPoints :
         /\ SampleOfField(SceneOf(DefaultParticles), q, f).length
              = IF f = Origin THEN 0 ELSE ArrowScale
         /\ SampleOfField(SceneOf(DefaultParticles), q, f).headPos
              = << q[1] + AxisArrow(f[1]), q[2] + AxisArrow(f[2]),
                   q[3] + AxisArrow(f[3]) >>
  /\ recomputed =>
       \A i \in 1..Len(fieldPoints) :
         IF FieldMagAt(i) = 0 THEN vectorField[i].length = 0
         ELSE UpToRounding(vectorField[i].length, ArrowScale, FieldMagAt(i))

\* C25 witness: a recomputation after an add has put in place an arrow of
\* length 1.5 at a lattice point where the field is weaker than 1.
C25_FullArrowForWeakField ==
  /\ lastOp = "confirmAdd"
  /\ recomputed
  /\ Len(particles) >= 2
  /\ \E i \in 1..Len(fieldPoints) :
       /\ FieldMagAt(i) \notin {0, NaN}
       /\ FieldMagAt(i) < Num(1) \div 10
       /\ vectorField[i].length >= ArrowScale - 3

\* The handlers that assign the store, and those that write nothing the
\* sampler reads.
StoreHandlers == { "reset", "confirmAdd", "confirmEdit", "delete" }
QuietHandlers ==
  { "frame", "play", "stop", "addProton", "addElectron", "click",
    "hideField" }

\* The drag that just ran put the ghost farther than the threshold from
\* position p.
DraggedBeyond(p) ==
  /\ lastOp' = "drag"
  /\ Distance(editingLivePosition', p) > vectorFieldUpdateThreshold

\* C26 as stated: the sampler recomputes only in a reset, in a handler that
\* changes the store (add, committed move, delete) and in a ghost update
\* farther than the threshold from the ghost position the previous
\* recomputation used; beginning an edit, ghost updates within the
\* threshold and frames do not recompute.  (The decay exponent is a
\* constant of the program.)
C26_RecomputesOnlyOnListedEvents ==
  [][/\ recomputed' =>
         \/ lastOp' \in StoreHandlers
         \/ DraggedBeyond(IF fieldGhost = << >> THEN lastEditPositionForField
                                                ELSE fieldGhost)
     /\ lastOp' = "timer" /\ editMode' /\ ~editMode => ~recomputed'
     /\ lastOp' = "drag" /\ ~DraggedBeyond(lastEditPositionForField) =>
           ~recomputed'
     /\ lastOp' = "frame" => ~recomputed']_vars

\* C26, amended: while the field is shown the sampler recomputes in exactly
\* these handlers: a reset, a handler that assigns the store (add, commit
\* of an edit, delete), the timer callback that begins an edit, a ghost
\* update farther than the threshold from lastEditPositionForField, and
\* the showing of the field after one of these happened while it was
\* hidden; while the field is hidden nothing recomputes.  Ghost updates
\* within the threshold, frames, play, stop, the add buttons, clicks and
\* the timer callback during an edit do not recompute.
C26_RecomputesOnDependencyWrite ==
  [][/\ recomputed' <=>
         /\ showVf'
         /\ \/ lastOp' \in StoreHandlers
            \/ lastOp' = "timer" /\ editMode' /\ ~editMode
            \/ DraggedBeyond(lastEditPositionForField)
            \/ lastOp' = "showField" /\ fieldDirty
     /\ lastOp' \in QuietHandlers => ~recomputed'
     /\ lastOp' = "timer" /\ editMode => ~recomputed'
     /\ lastOp' = "drag" /\ ~DraggedBeyond(lastEditPositionForField) =>
           ~recomputed']_vars

\* C26 witness: the timer callback has just begun an edit and the sampler
\* has recomputed.
C26_RecomputedAtEditStart ==
  /\ lastOp = "timer"
  /\ editMode
  /\ recomputed
  /\ editingParticleId \in Ids(particles)

\* The stored position of the source with the given id.
StoredPos(parts, id) ==
  Pos(parts[CHOOSE i \in 1..Len(parts) : parts[i].id = id])

\* The timer callback that just ran has begun an edit of a source of the
\* store.
EditBegun ==
  /\ lastOp' = "timer"
  /\ ~editMode
  /\ editMode'
  /\ editingParticleId' \in Ids(particles')

\* C27 as stated: beginning an edit puts the ghost at the stored position
\* of its target, so the samples on display right after the begin are
\* those from before it, and a commit that follows the begin with no ghost
\* update in between leaves every source where it was.
C27_GhostStartsAtTarget ==
  [][/\ EditBegun =>
          /\ GhostRead(Scene') = StoredPos(particles', editingParticleId')
          /\ showVf /\ showVf' => vectorField' = vectorField
     /\ lastOp = "timer" /\ recomputed /\ lastOp' = "confirmEdit" =>
           particles' = particles]_vars

\* C28 as stated: whenever a ghost is active, its target is the id of a
\* source of the store, whatever the order of clicks, timer callbacks,
\* deletes, commits and resets.
C28_GhostTargetInStore ==
  editMode => editingParticleId \in Ids(particles)

\* C29: at most one frame callback is registered at any time, and it is
\* the one req names, registered while playing only; a frame runs one
\* callback, which calls updatePuck once (one entry more in the trail) and
\* leaves one callback registered.
C29_SingleFrameCallback ==
  /\ [](/\ Cardinality(rafQueue) <= 1
        /\ rafQueue # {} => isPlaying /\ rafQueue = {req})
  /\ [][lastOp' = "frame" =>
          /\ Cardinality(rafQueue) = 1
          /\ Cardinality(rafQueue') = 1
          /\ Len(points') = Len(points) + 1]_vars

\* C29 witness: play was pressed again after frames and a stop, and one
\* callback is registered.
C29_ResumedWithOneCallback ==
  /\ lastOp = "play"
  /\ clock > 0
  /\ Cardinality(rafQueue) = 1

\* The samples of a store with no ghost.
SamplesOfStore(parts) ==
  [ i \in 1..Len(fieldPoints) |-> SampleAt(SceneOf(parts), fieldPoints[i]) ]

\* C30: whenever no edit is active the samples in place are those of the
\* current store: the derived value is never out of date while the field
\* is shown, an up-to-date value outside an edit is the list of samples
\* of the store alone, and a commit
\* or a reset (during an edit included) ends the edit and, the field
\* shown, leaves the samples of the store it wrote.
C30_SamplesOfCommittedSources ==
  /\ [](showVf => ~fieldDirty)
  /\ [](~editMode /\ ~fieldDirty => vectorField = SamplesOfStore(particles))
  /\ [][lastOp' \in { "confirmEdit", "reset" } =>
          /\ ~editMode'
          /\ showVf' => vectorField' = SamplesOfStore(particles')]_vars
  /\ [][lastOp' \in { "confirmAdd", "delete" } /\ ~editMode' /\ showVf' =>
          vectorField' = SamplesOfStore(particles')]_vars

\* C30 witness: a reset has just discarded a ghost that had been dragged
\* away from the default source, and the field is shown.
C30_ResetDiscardedGhost ==
  /\ lastOp = "reset"
  /\ ~editMode
  /\ showVf
  /\ editPositionTick > 0
  /\ editingLivePosition # StoredPos(particles, 1)
  /\ Len(particles) = 1

====
